---- MODULE Spec2Model ----
(***************************************************************************)
(* A model of note2markdown.py: the XML record extractor (XMLParser), the  *)
(* markup converter, filename sanitizer and document writer                *)
(* (MarkdownExporter) and the batch driver (process_xml_to_markdown).      *)
(*                                                                         *)
(* Text is a sequence of one-character strings.  An HTML fragment is the   *)
(* tree html.parser builds for it; an XML element is its tag (namespace    *)
(* URI and bare name), its text and its children.                          *)
(***************************************************************************)
EXTENDS Naturals, Sequences, FiniteSets, TLC

VARIABLES
    pc,              \* which operation the run is at
    html_content,    \* html_to_markdown: the parsed fragment (top-level nodes)
    markdown,        \* html_to_markdown: the returned text
    filename,        \* _sanitize_filename: the input
    safe_name,       \* _sanitize_filename: the values returned so far
    article_element, \* extract_article_content / _find_text_by_tag_variants: the node
    content,         \* extract_article_content: what the call returned or raised
    found,           \* _find_text_by_tag_variants: the variants and the returned text
    document,        \* _format_as_markdown: what the call returned or raised
    root,            \* process_xml_to_markdown: the root of the node tree
    articles,        \* process_xml_to_markdown: the matched record nodes
    i,               \* process_xml_to_markdown: index of the record in hand
    exported_files,  \* process_xml_to_markdown: the paths written so far
    files,           \* the output directory: path -> text of the file
    outcome          \* process_xml_to_markdown: what the call returned or raised

htmlVars == <<html_content, markdown>>
nameVars == <<filename, safe_name>>
recordVars == <<article_element, content, found, document>>
batchVars == <<root, articles, i, exported_files, files, outcome>>

vars == <<pc, htmlVars, nameVars, recordVars, batchVars>>

Idle == <<>>

\* The variables of the operations a specification does not run.
HtmlIdle == html_content = Idle /\ markdown = Idle
NameIdle == filename = Idle /\ safe_name = Idle
RecordIdle ==
    article_element = Idle /\ content = Idle /\ found = Idle /\ document = Idle
BatchIdle ==
    /\ root = Idle /\ articles = Idle /\ i = 0
    /\ exported_files = Idle /\ files = Idle /\ outcome = Idle

(***************************************************************************)
(* Text helpers                                                            *)
(***************************************************************************)

\* Characters of the modelled alphabet that Python's str.strip() and the
\* regex class \s treat as whitespace.
\* A character outside ASCII is the token naming its code point.
Whitespace == {" ", "\t", "\n", "U+3000"}

\* The concatenation of the sequences of a sequence.
RECURSIVE Concat(_)
Concat(seqs) ==
    IF seqs = <<>> THEN <<>> ELSE Head(seqs) \o Concat(Tail(seqs))

\* sep.join(seqs)
Join(seqs, sep) ==
    Concat([k \in 1..Len(seqs) |-> IF k = 1 THEN seqs[k] ELSE sep \o seqs[k]])

RECURSIVE LStrip(_)
LStrip(s) ==
    IF s # <<>> /\ s[1] \in Whitespace THEN LStrip(Tail(s)) ELSE s

RECURSIVE RStrip(_)
RStrip(s) ==
    IF s # <<>> /\ s[Len(s)] \in Whitespace
    THEN RStrip(SubSeq(s, 1, Len(s) - 1)) ELSE s

\* str.strip()
Strip(s) == RStrip(LStrip(s))

\* Length of the longest prefix of s made of characters of set cs.
RECURSIVE PrefixLen(_, _)
PrefixLen(s, cs) ==
    IF s # <<>> /\ s[1] \in cs THEN 1 + PrefixLen(Tail(s), cs) ELSE 0

Count(s, c) == Cardinality({k \in 1..Len(s) : s[k] = c})

Contains(s, c) == \E k \in 1..Len(s) : s[k] = c

(***************************************************************************)
(* The markup converter: MarkdownExporter.html_to_markdown                 *)
(***************************************************************************)

\* A text node (NavigableString) and an element (Tag) of the parse tree.
Str(s) == [t |-> "str", name |-> "", href |-> <<>>, src |-> <<>>,
           kids |-> <<>>, s |-> s]
Tag(name, href, src, kids) ==
    [t |-> "tag", name |-> name, href |-> href, src |-> src,
     kids |-> kids, s |-> <<>>]
El(name, kids) == Tag(name, <<>>, <<>>, kids)

IsTag(n) == n.t = "tag"

\* Tag.string (setter): the element's children are replaced by one text node.
SetString(element, s) == [element EXCEPT !.kids = <<Str(s)>>]

\* Tag.string (getter): <<>> stands for None, <<s>> for the string s.
RECURSIVE StringOf(_)
StringOf(element) ==
    IF Len(element.kids) # 1 THEN <<>>
    ELSE IF IsTag(element.kids[1]) THEN StringOf(element.kids[1])
    ELSE <<element.kids[1].s>>

\* How an f-string renders an optional string.
Fmt(opt) == IF opt = <<>> THEN <<"N", "o", "n", "e">> ELSE opt[1]

\* Python truthiness of an optional string.
Truthy(opt) == opt # <<>> /\ opt[1] # <<>>

\* The text nodes below a node, in document order (Tag._all_strings).
RECURSIVE AllStrings(_)
AllStrings(n) ==
    IF ~IsTag(n) THEN <<n.s>>
    ELSE Concat([k \in 1..Len(n.kids) |-> AllStrings(n.kids[k])])

\* Tag.get_text(separator)
GetText(n, sep) == Join(AllStrings(n), sep)

\* The elements below a node, in document order, each as its path of child
\* positions (Tag.find_all(recursive=True) returns them as a list).
RECURSIVE FindAll(_)
FindAll(n) ==
    Concat([k \in 1..Len(n.kids) |->
        IF IsTag(n.kids[k])
        THEN <<<<k>>>> \o [j \in 1..Len(FindAll(n.kids[k])) |->
                              <<k>> \o FindAll(n.kids[k])[j]]
        ELSE <<>>])

\* Whether the path still leads to an element of the tree.
RECURSIVE Attached(_, _)
Attached(n, path) ==
    IF path = <<>> THEN IsTag(n)
    ELSE /\ IsTag(n)
         /\ Head(path) <= Len(n.kids)
         /\ Attached(n.kids[Head(path)], Tail(path))

RECURSIVE NodeAt(_, _)
NodeAt(n, path) ==
    IF path = <<>> THEN n ELSE NodeAt(n.kids[Head(path)], Tail(path))

RECURSIVE ReplaceAt(_, _, _)
ReplaceAt(n, path, new) ==
    IF path = <<>> THEN new
    ELSE [n EXCEPT !.kids[Head(path)] = ReplaceAt(@, Tail(path), new)]

\* Tag.find(name): the first element below n with that name, <<>> if none.
FindByName(n, name) ==
    LET hits == SelectSeq(FindAll(n), LAMBDA p : NodeAt(n, p).name = name)
    IN  IF hits = <<>> THEN <<>> ELSE <<NodeAt(n, hits[1])>>

\* Tag.find_all('li', recursive=False)
DirectItems(element) ==
    SelectSeq(element.kids, LAMBDA k : IsTag(k) /\ k.name = "li")

HeadingLevel(name) ==
    CASE name = "h1" -> 1 [] name = "h2" -> 2 [] name = "h3" -> 3
      [] name = "h4" -> 4 [] name = "h5" -> 5 [] name = "h6" -> 6
      [] OTHER -> 0

Hashes(n) == [k \in 1..n |-> "#"]

BlankLine == <<"\n", "\n">>

\* The text of one list line: "- " or "<idx>. " and the item's stripped text.
ItemLine(element, li, idx) ==
    (IF element.name = "ul" THEN <<"-", " ">> ELSE <<ToString(idx), ".", " ">>)
        \o Strip(GetText(li, <<>>))

RECURSIVE _process_element(_)
RECURSIVE ProcessEach(_, _)

\* The p branch, the children of a paragraph that has no single string.
ParagraphParts(element) ==
    [k \in 1..Len(element.kids) |->
        IF ~IsTag(element.kids[k]) THEN Strip(element.kids[k].s)
        ELSE GetText(_process_element(element.kids[k]), <<>>)]

\* The if/elif chain of _process_element: the element after its own rule.
ApplyRule(element) ==
    LET name == element.name IN
    IF HeadingLevel(name) > 0 THEN
        SetString(element, Hashes(HeadingLevel(name)) \o <<" ">>
                             \o Fmt(StringOf(element)) \o BlankLine)
    ELSE IF name = "p" THEN
        IF Truthy(StringOf(element))
        THEN SetString(element, StringOf(element)[1] \o BlankLine)
        ELSE SetString(element, Join(ParagraphParts(element), <<" ">>) \o BlankLine)
    ELSE IF name = "a" THEN
        SetString(element,
            <<"[">> \o (IF Truthy(StringOf(element)) THEN StringOf(element)[1]
                        ELSE element.href)
                    \o <<"]", "(">> \o element.href \o <<")">>)
    ELSE IF name = "img" THEN
        SetString(element, <<"!", "[", "]", "(">> \o element.src \o <<")">>)
    ELSE IF name = "figure" THEN
        LET img == FindByName(element, "img")
            figcaption == FindByName(element, "figcaption")
            caption == IF figcaption # <<>>
                       THEN Fmt(StringOf(figcaption[1])) ELSE <<>>
        IN  IF img # <<>>
            THEN SetString(element, <<"!", "[">> \o caption \o <<"]", "(">>
                                      \o img[1].src \o <<")">> \o BlankLine)
            ELSE element
    ELSE IF name = "figcaption" THEN
        SetString(element, <<>>)
    ELSE IF name \in {"ul", "ol"} THEN
        LET lis == DirectItems(element) IN
        SetString(element,
            Join([k \in 1..Len(lis) |-> ItemLine(element, lis[k], k)], <<"\n">>)
                \o BlankLine)
    ELSE IF name = "br" THEN
        SetString(element, <<"\n">>)
    ELSE element

\* The closing loop of _process_element over the list find_all returned:
\* every listed element is processed in turn; one that an earlier step
\* detached from the tree no longer contributes to it.
ProcessEach(element, paths) ==
    IF paths = <<>> THEN element
    ELSE LET p == Head(paths)
             next == IF Attached(element, p)
                     THEN ReplaceAt(element, p, _process_element(NodeAt(element, p)))
                     ELSE element
         IN  ProcessEach(next, Tail(paths))

_process_element(element) ==
    LET ruled == ApplyRule(element)
    IN  ProcessEach(ruled, FindAll(ruled))

\* re.sub(r'\n\s*\n\s*\n+', '\n\n', s): a run of whitespace that starts at a
\* newline and holds three or more newlines is replaced, from its first to
\* its last newline, by two newlines.
RECURSIVE CollapseBlankLines(_)
CollapseBlankLines(s) ==
    IF s = <<>> THEN <<>>
    ELSE LET run == PrefixLen(s, Whitespace)
             last == CHOOSE k \in 1..run :
                        /\ s[k] = "\n"
                        /\ \A m \in (k + 1)..run : s[m] # "\n"
         IN  IF s[1] = "\n" /\ Count(SubSeq(s, 1, run), "\n") >= 3
             THEN BlankLine \o CollapseBlankLines(SubSeq(s, last + 1, Len(s)))
             ELSE <<s[1]>> \o CollapseBlankLines(Tail(s))

\* re.sub(r' +$', '', s, flags=re.MULTILINE): a run of spaces is removed
\* when a newline or the end of the text follows it.
RECURSIVE StripTrailingSpaces(_)
StripTrailingSpaces(s) ==
    IF s = <<>> THEN <<>>
    ELSE LET run == PrefixLen(s, {" "})
         IN  IF run = 0 THEN <<s[1]>> \o StripTrailingSpaces(Tail(s))
             ELSE IF run = Len(s) \/ s[run + 1] = "\n"
             THEN StripTrailingSpaces(SubSeq(s, run + 1, Len(s)))
             ELSE SubSeq(s, 1, run) \o StripTrailingSpaces(SubSeq(s, run + 1, Len(s)))

\* html_to_markdown, given the top-level nodes the parser built (none for "").
html_to_markdown(nodes) ==
    IF nodes = <<>> THEN <<>>
    ELSE LET soup == _process_element(El("[document]", nodes))
         IN  Strip(StripTrailingSpaces(CollapseBlankLines(GetText(soup, <<"\n">>))))

(***************************************************************************)
(* Input fragments of the markup converter                                 *)
(***************************************************************************)

MaxKids == 2     \* children of an innermost element
MaxTop == 2      \* top-level nodes of a fragment made of leaves

SeqsUpTo(S, n) == UNION {[1..k -> S] : k \in 0..n}

Texts == {<<"a">>, <<"a", "\t">>, <<"a", " ">>, <<"\n">>}

ElementNames == {"h1", "h2", "h3", "h4", "h5", "h6", "p", "a", "figure",
                 "figcaption", "ul", "ol", "li", "div"}

\* Text nodes and the void elements.
Leaves == {Str(s) : s \in Texts}
            \cup {El("br", <<>>), Tag("img", <<>>, <<"s">>, <<>>)}

\* Elements that hold up to kids leaves only.
Level1(kids) ==
    {Tag(name, IF name = "a" THEN <<"u">> ELSE <<>>, <<>>, ks) :
        name \in ElementNames, ks \in SeqsUpTo(Leaves, kids)}

\* Elements that hold one element of the level below.
Level2(kids) ==
    {El(name, <<kid>>) :
        name \in {"div", "li", "p", "figure", "h1", "ul"}, kid \in Level1(kids)}

Level3(kids) ==
    {El(name, <<kid>>) :
        name \in {"div", "ul", "ol", "p"}, kid \in Level2(kids)}

Fragments(kids, top) ==
    (SeqsUpTo(Leaves, top))
        \cup {<<n>> : n \in Level1(kids) \cup Level2(kids) \cup Level3(kids)}
        \cup {<<n, m>> : n \in {El("h1", <<Str(<<"a">>)>>), El("p", <<Str(<<"a">>)>>)},
                         m \in Level1(kids)}

InitHtml ==
    /\ pc = "html"
    /\ html_content \in Fragments(MaxKids, MaxTop)
    /\ markdown = Idle
    /\ NameIdle /\ RecordIdle /\ BatchIdle

\* One call of html_to_markdown.
HtmlToMarkdown ==
    /\ pc = "html"
    /\ markdown' = html_to_markdown(html_content)
    /\ pc' = "html_done"
    /\ UNCHANGED <<html_content, nameVars, recordVars, batchVars>>

NextHtml == HtmlToMarkdown

SpecHtml == InitHtml /\ [][NextHtml]_vars

\* The post-processing of html_to_markdown applied to a text.
PostProcess(s) == Strip(StripTrailingSpaces(CollapseBlankLines(s)))

\* C1: html_to_markdown returns a text with no run of three or more
\* newlines and in which no line ends with a whitespace character (space,
\* tab or any other whitespace).
C1_NoBlankRunsNoTrailingWhitespace ==
    pc = "html_done" =>
        /\ \A k \in 1..Len(markdown) :
              ~(k + 2 <= Len(markdown) /\ markdown[k] = "\n"
                  /\ markdown[k + 1] = "\n" /\ markdown[k + 2] = "\n")
        /\ \A k \in 1..Len(markdown) :
              (markdown[k] \in Whitespace \ {"\n"})
                  => (k < Len(markdown) /\ markdown[k + 1] # "\n")

\* A heading wrapped in zero or more div elements.
RECURSIVE HeadingIn(_)
HeadingIn(n) ==
    IF IsTag(n) /\ HeadingLevel(n.name) > 0 THEN <<n>>
    ELSE IF IsTag(n) /\ n.name = "div" /\ Len(n.kids) = 1 THEN HeadingIn(n.kids[1])
    ELSE <<>>

OnlyText(n) == \A k \in 1..Len(n.kids) : ~IsTag(n.kids[k])

\* C8: a heading of level n, at any nesting depth and whatever its content,
\* is rendered as n '#' characters, one space and the heading's text,
\* followed by a blank line: no extra '#' prefix, no literal None.
C8_HeadingRenderedOnce ==
    (pc = "html_done" /\ Len(html_content) = 1
        /\ HeadingIn(html_content[1]) # <<>>) =>
        LET h == HeadingIn(html_content[1])[1] IN
        markdown = PostProcess(Hashes(HeadingLevel(h.name)) \o <<" ">>
                                 \o GetText(h, <<>>) \o BlankLine)

\* C9: the rules are applied bottom-up: the line of a list item holds the
\* converted form of the element nested in it (a hyperlink as [text](href)).
C9_ListItemHoldsConvertedChild ==
    (pc = "html_done" /\ Len(html_content) = 1
        /\ html_content[1].name = "ul" /\ Len(html_content[1].kids) = 1
        /\ html_content[1].kids[1].name = "li"
        /\ Len(html_content[1].kids[1].kids) = 1
        /\ html_content[1].kids[1].kids[1].name = "a") =>
        LET link == html_content[1].kids[1].kids[1] IN
        markdown = PostProcess(<<"-", " ">>
                     \o Strip(GetText(_process_element(link), <<>>)) \o BlankLine)

(***************************************************************************)
(* The filename sanitizer: MarkdownExporter._sanitize_filename             *)
(***************************************************************************)

MaxFilenameLen == 100

HexDigits == {"3", "A"}

\* The character a percent-escaped byte decodes to (UTF-8, errors='replace'):
\* 0x33 is '3', 0x3A is ':', 0xA3 and 0xAA are stray continuation bytes.
DecodedByte(hi, lo) ==
    CASE hi = "3" /\ lo = "3" -> "3"
      [] hi = "3" /\ lo = "A" -> ":"
      [] OTHER -> "U+FFFD"

\* urllib.parse.unquote: every '%' followed by two hex digits is replaced by
\* the byte they name, in one pass; any other '%' is kept.  (An escape never
\* starts inside another one: '%' is no hex digit.)
EscapeAt(s, k) ==
    /\ k >= 1 /\ k + 2 <= Len(s)
    /\ s[k] = "%" /\ s[k + 1] \in HexDigits /\ s[k + 2] \in HexDigits

Unquote(s) ==
    Concat([k \in 1..Len(s) |->
        IF EscapeAt(s, k) THEN <<DecodedByte(s[k + 1], s[k + 2])>>
        ELSE IF EscapeAt(s, k - 1) \/ EscapeAt(s, k - 2) THEN <<>>
        ELSE <<s[k]>>])

\* unicodedata.normalize('NFKC', .) on one character: FULLWIDTH COLON,
\* IDEOGRAPHIC SPACE and ACCOUNT OF have compatibility mappings.
NFKCChar(c) ==
    CASE c = "U+FF1A" -> <<":">>
      [] c = "U+3000" -> <<" ">>
      [] c = "U+2100" -> <<"a", "/", "c">>
      [] OTHER -> <<c>>

NFKC(s) == Concat([k \in 1..Len(s) |-> NFKCChar(s[k])])

UnsafeChars == {"<", ">", ":", "\"", "/", "\\", "|", "?", "*"}

\* re.sub(r'[<>:"/\\|?*]', '_', s)
ReplaceUnsafe(s) ==
    [k \in 1..Len(s) |-> IF s[k] \in UnsafeChars THEN "_" ELSE s[k]]

\* re.sub(r'\s+', '_', s): the first character of a whitespace run becomes
\* '_', the rest of the run is dropped.
ReplaceWhitespaceRuns(s) ==
    Concat([k \in 1..Len(s) |->
        IF s[k] \notin Whitespace THEN <<s[k]>>
        ELSE IF k = 1 \/ s[k - 1] \notin Whitespace THEN <<"_">>
        ELSE <<>>])

\* filename[:100]
Truncate(s) == SubSeq(s, 1, IF Len(s) < MaxFilenameLen THEN Len(s) ELSE MaxFilenameLen)

\* A variant that normalizes after the substitutions instead of before them.
sanitize_normalize_last(name) ==
    Truncate(NFKC(ReplaceWhitespaceRuns(ReplaceUnsafe(Unquote(name)))))

_sanitize_filename(name) ==
    Truncate(ReplaceWhitespaceRuns(ReplaceUnsafe(NFKC(Unquote(name)))))

MaxNameLen == 3    \* freely chosen characters of an input name
MaxCalls == 2      \* calls of the sanitizer on the same input

NameChars == {"a", ":", " ", "%", "3", "A", "U+FF1A", "U+3000", "U+2100"}

\* Lengths of the run of 'a' put before the chosen characters, so that the
\* limit of 100 characters falls inside them.
PadLens == {0, MaxFilenameLen - 3, MaxFilenameLen - 1}

Filenames == {[k \in 1..n |-> "a"] \o tail :
                 n \in PadLens, tail \in SeqsUpTo(NameChars, MaxNameLen)}

InitSanitize ==
    /\ pc = "sanitize"
    /\ filename \in Filenames
    /\ safe_name = <<>>
    /\ HtmlIdle /\ RecordIdle /\ BatchIdle

\* One call of _sanitize_filename; safe_name lists the values returned so far.
Sanitize ==
    /\ pc = "sanitize"
    /\ Len(safe_name) < MaxCalls
    /\ safe_name' = Append(safe_name, _sanitize_filename(filename))
    /\ UNCHANGED <<pc, filename, htmlVars, recordVars, batchVars>>

NextSanitize == Sanitize

SpecSanitize == InitSanitize /\ [][NextSanitize]_vars

\* C6: _sanitize_filename returns a name of at most 100 characters that
\* holds none of < > : " / \ | ? * and no whitespace character, and every
\* call with the same input returns the same name.
C6_SafeBoundedDeterministic ==
    pc = "sanitize" =>
        \A c \in 1..Len(safe_name) :
            /\ Len(safe_name[c]) <= 100
            /\ \A k \in 1..Len(safe_name[c]) :
                  safe_name[c][k] \notin UnsafeChars \cup Whitespace
            /\ safe_name[c] = safe_name[1]

\* Reached: an input of more than 100 characters that ends with an escaped
\* colon has been sanitized twice, and the name was cut to 100 characters.
C6_Witness ==
    /\ pc = "sanitize"
    /\ Len(safe_name) = 2
    /\ Len(filename) > 100
    /\ Len(safe_name[1]) = 100
    /\ \E k \in 1..(Len(filename) - 2) :
          filename[k] = "%" /\ filename[k + 1] = "3" /\ filename[k + 2] = "A"
    /\ safe_name[1][Len(safe_name[1])] = "_"

(***************************************************************************)
(* The node tree and the field resolver: XMLParser                         *)
(***************************************************************************)

\* Namespace URIs.  NoNs marks an element without a namespace.
NoNs == ""
WP == "http://wordpress.org/export/1.2/"
EXCERPT == "http://wordpress.org/export/1.2/excerpt/"
DC == "http://purl.org/dc/elements/1.1/"
CONTENT == "http://purl.org/rss/1.0/modules/content/"

\* An element of the node tree.  text is <<>> for an element without text.
XmlEl(ns, name, text, kids) ==
    [ns |-> ns, name |-> name, text |-> text, kids |-> kids]

\* Element.tag as ElementTree spells it, "{uri}name" or "name", as tokens.
TagOf(e) == IF e.ns = NoNs THEN <<e.name>> ELSE <<"{", e.ns, "}", e.name>>

\* The tag tokens that hold the text 'wordpress.org'.
HoldsWordpressOrg == {WP, EXCERPT}

\* tag.split('}')[-1] if '}' in tag else tag
_cleanup_tag_name(tag) == IF Contains(tag, "}") THEN tag[Len(tag)] ELSE tag[1]

\* The descendants of an element in document order (Element.iter, less self).
RECURSIVE Descendants(_)
Descendants(e) ==
    Concat([k \in 1..Len(e.kids) |-> <<e.kids[k]>> \o Descendants(e.kids[k])])

FirstWithTag(elems, tag) ==
    LET hits == SelectSeq(elems, LAMBDA e : TagOf(e) = tag)
    IN  IF hits = <<>> THEN <<>> ELSE <<hits[1]>>

\* Element.find(name): the first immediate child with exactly that tag.
FindChild(e, tag) == FirstWithTag(e.kids, tag)

\* Element.find('.//' + tag): the first descendant with exactly that tag.
FindDescendant(e, tag) == FirstWithTag(Descendants(e), tag)

\* The tag that ElementPath reads from the path ".//{{{*}}}:" + variant (the
\* string is no f-string, so the braces stay): a brace group "{{{*}" and a
\* rest "}}:" + variant.  It is no wildcard, so it is matched as it stands.
WpTagOf(variant) == <<"{", "{{*", "}", "}}:" \o variant>>

\* The tag read from the path ".//{{{*}}}" + variant.
NsTagOf(variant) == <<"{", "{{*", "}", "}}" \o variant>>

\* For each variant in turn: the exact match, the two namespace matches.
RECURSIVE _find_element_by_tag_variants(_, _)
_find_element_by_tag_variants(element, tag_variants) ==
    IF tag_variants = <<>> THEN <<>>
    ELSE LET variant == Head(tag_variants)
             exact_match == FindChild(element, <<variant>>)
             wp_match == FindDescendant(element, WpTagOf(variant))
             ns_match == FindDescendant(element, NsTagOf(variant))
         IN  IF exact_match # <<>> THEN exact_match
             ELSE IF wp_match # <<>> THEN wp_match
             ELSE IF ns_match # <<>> THEN ns_match
             ELSE _find_element_by_tag_variants(element, Tail(tag_variants))

\* elem.text.strip() if elem is not None and elem.text else ""
TextOf(opt) == IF opt # <<>> /\ opt[1].text # <<>> THEN Strip(opt[1].text) ELSE <<>>

_find_text_by_tag_variants(element, tag_variants) ==
    TextOf(_find_element_by_tag_variants(element, tag_variants))

\* root.findall(".//" + article_tag)
find_articles(tree, article_tag) ==
    SelectSeq(Descendants(tree), LAMBDA e : TagOf(e) = <<article_tag>>)

(***************************************************************************)
(* The record extractor: XMLParser.extract_article_content                 *)
(***************************************************************************)

\* The keys of the record other than other_metadata, in the order of the
\* dict literal.
CanonicalOrder ==
    <<"title", "link", "description", "content", "pubDate", "post_id", "guid",
      "post_date", "post_date_gmt", "post_modified", "post_modified_gmt",
      "comment_status", "ping_status", "post_name", "status", "post_parent",
      "menu_order", "post_type", "post_password", "is_sticky", "creator">>

CanonicalFields == {CanonicalOrder[k] : k \in 1..Len(CanonicalOrder)}

RecordKeys == CanonicalFields \cup {"other_metadata"}

\* A value held by the record: a string or a dict (its items in order).
StrVal(s) == [type |-> "str", s |-> s, items |-> <<>>]
DictVal(items) == [type |-> "dict", s |-> <<>>, items |-> items]

\* d[key] = value on a dict kept as its items in insertion order.
DictSet(items, key, value) ==
    IF \E k \in 1..Len(items) : items[k][1] = key
    THEN [k \in 1..Len(items) |->
             IF items[k][1] = key THEN <<key, value>> ELSE items[k]]
    ELSE Append(items, <<key, value>>)

DictKeys(items) == [k \in 1..Len(items) |-> items[k][1]]

DictGet(items, key) ==
    items[CHOOSE k \in 1..Len(items) : items[k][1] = key][2]

\* The record as the dict literal builds it.
EmptyContent ==
    [f \in RecordKeys |->
        IF f = "other_metadata" THEN DictVal(<<>>) ELSE StrVal(<<>>)]

\* The first loop: the children whose tag holds 'wordpress.org' or '{}'.
RECURSIVE WpElements(_, _)
WpElements(kids, wp_elements) ==
    IF kids = <<>> THEN wp_elements
    ELSE LET elem == Head(kids)
             tag == TagOf(elem)
             tag_name == _cleanup_tag_name(tag)
             taken ==
                \/ \E k \in 1..Len(tag) : tag[k] \in HoldsWordpressOrg
                \/ \E k \in 1..(Len(tag) - 1) : tag[k] = "{" /\ tag[k + 1] = "}"
         IN  WpElements(Tail(kids),
                 IF taken THEN DictSet(wp_elements, tag_name, Strip(elem.text))
                 ELSE wp_elements)

\* The last loop: each collected value goes to the record key of its name,
\* or into other_metadata.  Item assignment on a str raises TypeError.
RECURSIVE Merge(_, _)
Merge(rec, wp_elements) ==
    IF wp_elements = <<>> THEN [raised |-> "", record |-> rec]
    ELSE LET key == Head(wp_elements)[1]
             value == Head(wp_elements)[2]
         IN  IF key \in DOMAIN rec
             THEN Merge([rec EXCEPT ![key] = StrVal(value)], Tail(wp_elements))
             ELSE IF rec["other_metadata"].type = "dict"
             THEN Merge([rec EXCEPT !["other_metadata"] =
                            DictVal(DictSet(@.items, key, value))],
                        Tail(wp_elements))
             ELSE [raised |-> "TypeError", record |-> rec]

extract_article_content(element) ==
    LET wp_elements == WpElements(element.kids, <<>>)
        resolved ==
            [EmptyContent EXCEPT
                !["title"] = StrVal(_find_text_by_tag_variants(element, <<"title">>)),
                !["link"] = StrVal(_find_text_by_tag_variants(element, <<"link">>)),
                !["guid"] = StrVal(_find_text_by_tag_variants(element, <<"guid">>)),
                !["creator"] =
                    StrVal(TextOf(FindDescendant(element, <<"{", DC, "}", "creator">>))),
                !["content"] =
                    StrVal(TextOf(FindDescendant(element, <<"{", CONTENT, "}", "encoded">>)))]
    IN  Merge(resolved, wp_elements)

(***************************************************************************)
(* The document writer: MarkdownExporter._format_as_markdown               *)
(***************************************************************************)

\* The fields of the "basic fields" block, in the order of its statements.
HeaderOrder ==
    <<"title", "post_id", "link", "guid", "description", "pubDate", "post_date",
      "post_date_gmt", "post_modified", "post_modified_gmt", "comment_status",
      "ping_status", "post_name", "status", "post_parent", "menu_order",
      "post_type", "post_password", "is_sticky">>

Dashes == <<"-", "-", "-">>

NoContent == <<"(", "N", "o", " ", "c", "o", "n", "t", "e", "n", "t", ")">>

\* safe_value: "" is written as two quotes; a value with a colon, a newline
\* or a quote is wrapped in quotes (the result of replace() is dropped).
\* Every value of a record is a string, so the None branch is never taken.
safe_value(value) ==
    IF value = <<>> THEN <<"\"", "\"">>
    ELSE IF Contains(value, ":") \/ Contains(value, "\n") \/ Contains(value, "\"")
    THEN <<"\"">> \o value \o <<"\"">>
    ELSE value

\* f"{key}: {safe_value(value)}"; a key is one token.
KeyLine(key, value) == <<key, ":", " ">> \o safe_value(value)

\* The list `lines` that _format_as_markdown builds.
FormatLines(rec) ==
    <<Dashes>>
        \o [k \in 1..Len(HeaderOrder) |-> KeyLine(HeaderOrder[k], rec[HeaderOrder[k]].s)]
        \o [k \in 1..Len(rec["other_metadata"].items) |->
               KeyLine(rec["other_metadata"].items[k][1],
                       rec["other_metadata"].items[k][2])]
        \o <<Dashes, <<>>,
             IF rec["content"].s # <<>> THEN rec["content"].s ELSE NoContent>>

\* "\n".join(lines); a str has no items(), so the call raises AttributeError
\* when other_metadata is no dict.
_format_as_markdown(rec) ==
    IF rec["other_metadata"].type # "dict"
    THEN [raised |-> "AttributeError", text |-> <<>>]
    ELSE [raised |-> "", text |-> Join(FormatLines(rec), <<"\n">>)]

(***************************************************************************)
(* Record nodes given to the extractor                                     *)
(***************************************************************************)

MaxChildren == 2    \* immediate children of a record node

Leaf(ns, name, text) == XmlEl(ns, name, text, <<>>)

Children ==
    { Leaf(NoNs, "title", <<"T">>),
      Leaf(NoNs, "link", <<" ", "l">>),
      Leaf(NoNs, "foo", <<"x">>),
      Leaf(WP, "post_id", <<"1">>),
      Leaf(WP, "title", <<"W">>),
      Leaf(WP, "foo", <<"x">>),
      Leaf(WP, "foo", <<" ", "y">>),
      Leaf(WP, "bar", <<>>),
      Leaf(WP, "other_metadata", <<"m">>),
      Leaf(EXCERPT, "encoded", <<"e">>),
      Leaf(DC, "creator", <<"m", "e">>),
      Leaf(DC, "subject", <<"s">>),
      Leaf(DC, "title", <<"N">>),
      Leaf(CONTENT, "encoded", <<"c">>),
      XmlEl(NoNs, "box", <<>>, <<Leaf(NoNs, "title", <<"D">>)>>),
      XmlEl(NoNs, "box", <<>>, <<Leaf(DC, "creator", <<"d">>)>>) }

RecordNodes == {XmlEl(NoNs, "item", <<>>, kids) : kids \in SeqsUpTo(Children, MaxChildren)}

VariantLists == {<<"title">>, <<"link">>, <<"guid">>, <<"link", "title">>}

InitExtract ==
    /\ pc = "extract"
    /\ article_element \in RecordNodes
    /\ content = Idle /\ found = Idle /\ document = Idle
    /\ HtmlIdle /\ NameIdle /\ BatchIdle

\* One call of _find_text_by_tag_variants on the node.
FindText ==
    /\ pc = "extract"
    /\ found = Idle
    /\ \E tag_variants \in VariantLists :
          found' = <<[variants |-> tag_variants,
                      text |-> _find_text_by_tag_variants(article_element, tag_variants)]>>
    /\ UNCHANGED <<pc, article_element, content, document,
                   htmlVars, nameVars, batchVars>>

\* One call of extract_article_content on the node.
Extract ==
    /\ pc = "extract"
    /\ content' = extract_article_content(article_element)
    /\ pc' = "extracted"
    /\ UNCHANGED <<article_element, found, document, htmlVars, nameVars, batchVars>>

\* One call of _format_as_markdown on the returned record.
Format ==
    /\ pc = "extracted"
    /\ content.raised = ""
    /\ document' = _format_as_markdown(content.record)
    /\ pc' = "formatted"
    /\ UNCHANGED <<article_element, content, found, htmlVars, nameVars, batchVars>>

NextExtract == FindText \/ Extract \/ Format

SpecExtract == InitExtract /\ [][NextExtract]_vars

\* Whether the node holds, at any depth, an element that would fill field f.
SourceHas(node, f) ==
    \E k \in 1..Len(Descendants(node)) :
        \/ Descendants(node)[k].name = f
        \/ f = "content" /\ Descendants(node)[k].name = "encoded"

\* C2: for every record node the extractor returns, without error, a record
\* in which every canonical field holds a string ("" when the source lacks
\* the field) and other_metadata is a mapping from names to strings,
\* whatever the bare names of the children are.
C2_CanonicalFieldsAlwaysPresent ==
    pc \in {"extracted", "formatted"} =>
        /\ content.raised = ""
        /\ \A f \in CanonicalFields :
              /\ f \in DOMAIN content.record
              /\ content.record[f].type = "str"
              /\ ~SourceHas(article_element, f) => content.record[f].s = <<>>
        /\ content.record["other_metadata"].type = "dict"

\* The text of the last namespaced immediate child with the bare name.
LastText(node, name) ==
    LET same == SelectSeq(node.kids, LAMBDA c : c.ns # NoNs /\ c.name = name)
    IN  Strip(same[Len(same)].text)

\* C3: every immediate child with a namespace (any namespace) whose bare
\* name is no canonical field appears in other_metadata under its bare name
\* with its text; of several with one bare name the last one is kept.
C3_NamespacedChildrenInOtherMetadata ==
    pc \in {"extracted", "formatted"} =>
        \A k \in 1..Len(article_element.kids) :
            LET c == article_element.kids[k] IN
            (c.ns # NoNs /\ c.name \notin CanonicalFields) =>
                /\ content.raised = ""
                /\ content.record["other_metadata"].type = "dict"
                /\ \E j \in 1..Len(content.record["other_metadata"].items) :
                      content.record["other_metadata"].items[j]
                          = <<c.name, LastText(article_element, c.name)>>

\* C4: the resolver returns the text of a descendant, at any depth, whose
\* tag is a variant without namespace; if there is none, the text of a
\* descendant whose tag is a variant in any namespace; and "" when there
\* is no such descendant (or the match has no text).
C4_ResolverFindsDescendants ==
    found # Idle =>
        LET all == Descendants(article_element)
            named(e) == \E v \in 1..Len(found[1].variants) :
                            e.name = found[1].variants[v]
            exact == {k \in 1..Len(all) : all[k].ns = NoNs /\ named(all[k])}
            qualified == {k \in 1..Len(all) : all[k].ns # NoNs /\ named(all[k])}
        IN  IF exact # {}
            THEN \E k \in exact : found[1].text = Strip(all[k].text)
            ELSE IF qualified # {}
            THEN \E k \in qualified : found[1].text = Strip(all[k].text)
            ELSE found[1].text = <<>>

\* s.split("\n")
SplitLines(s) ==
    LET breaks == SelectSeq([k \in 1..Len(s) |-> k], LAMBDA k : s[k] = "\n")
        from(j) == IF j = 1 THEN 1 ELSE breaks[j - 1] + 1
        to(j) == IF j = Len(breaks) + 1 THEN Len(s) ELSE breaks[j] - 1
    IN  [j \in 1..(Len(breaks) + 1) |-> SubSeq(s, from(j), to(j))]

\* The lines between the first two '---' lines of a document.
HeaderLines(text) ==
    LET lines == SplitLines(text)
        close == CHOOSE k \in 2..Len(lines) :
                    lines[k] = Dashes /\ \A m \in 2..(k - 1) : lines[m] # Dashes
    IN  SubSeq(lines, 2, close - 1)

IsKeyLine(line, key) ==
    Len(line) >= 3 /\ line[1] = key /\ line[2] = ":" /\ line[3] = " "

\* C5: the metadata block holds, between the two '---' lines, one
\* 'key: value' line for every canonical field (creator included; content,
\* which is the body of the document, is not asked for here) in one fixed
\* order, then one line per other_metadata entry in insertion order.
C5_HeaderListsEveryCanonicalField ==
    (pc = "formatted" /\ document.raised = "") =>
        LET header == HeaderLines(document.text)
            fixed == HeaderLines(_format_as_markdown(EmptyContent).text)
            other == content.record["other_metadata"].items
            n == Len(header) - Len(other)
        IN  /\ n = Len(fixed)
            /\ \A f \in CanonicalFields \ {"content"} :
                  Cardinality({k \in 1..n : IsKeyLine(header[k], f)}) = 1
            /\ \A k \in 1..n : header[k][1] = fixed[k][1]
            /\ \A k \in 1..Len(other) :
                  header[n + k] = KeyLine(other[k][1], other[k][2])

(***************************************************************************)
(* MarkdownExporter.export_article and process_xml_to_markdown             *)
(***************************************************************************)

\* BeautifulSoup(html_content, 'html.parser') for a text without markup:
\* one text node.
BeautifulSoup(text) == IF text = <<>> THEN <<>> ELSE <<Str(text)>>

\* f"{index:03d}" for an index below 1000
Digits3(index) ==
    <<ToString((index \div 100) % 10), ToString((index \div 10) % 10),
      ToString(index % 10)>>

\* The name export_article gives the file of a record (inside output_dir).
ExportPath(rec, index) ==
    IF rec["title"].s # <<>>
    THEN _sanitize_filename(rec["title"].s) \o <<".", "m", "d">>
    ELSE <<"a", "r", "t", "i", "c", "l", "e", "_">> \o Digits3(index)
            \o <<".", "m", "d">>

\* The record after export_article converted its content in place.
Converted(rec) ==
    IF rec["content"].s # <<>>
    THEN [rec EXCEPT !["content"] = StrVal(html_to_markdown(BeautifulSoup(@.s)))]
    ELSE rec

\* A variant of the write that leaves an existing file alone.
WriteFileIfNew(fs, path, text) ==
    [q \in DOMAIN fs \cup {path} |-> IF q \in DOMAIN fs THEN fs[q] ELSE text]

\* open(filepath, 'w') ... f.write(text): the file is created or replaced.
WriteFile(fs, path, text) ==
    [q \in DOMAIN fs \cup {path} |-> IF q = path THEN text ELSE fs[q]]

Running == [status |-> "running", error |-> "", index |-> 0]
Returned == [status |-> "returned", error |-> "", index |-> 0]
Raised(error, index) == [status |-> "raised", error |-> error, index |-> index]

\* A variant of the except clause that reports the error and goes on with
\* the next record.
ContinueAfterError(error) ==
    /\ outcome' = Raised(error, i)
    /\ pc' = "loop"
    /\ i' = i + 1
    /\ UNCHANGED <<root, articles, exported_files>>

\* except Exception: ... raise: the call ends with the exception; index is
\* the value of the loop variable at that moment.
Reraise(error) ==
    /\ outcome' = Raised(error, i)
    /\ pc' = "done"
    /\ UNCHANGED <<root, articles, i, exported_files>>

MaxArticles == 3    \* children of the channel

Item(kids) == XmlEl(NoNs, "item", <<>>, kids)

ChannelChildren ==
    { Leaf(NoNs, "title", <<"T">>),
      Item(<<Leaf(NoNs, "title", <<"T">>), Leaf(CONTENT, "encoded", <<"c", " ", "\n">>)>>),
      Item(<<Leaf(NoNs, "title", <<"T">>), Leaf(WP, "post_id", <<"1">>)>>),
      Item(<<Leaf(NoNs, "title", <<"a", ":">>)>>),
      Item(<<Leaf(WP, "foo", <<"x">>)>>),
      Item(<<Leaf(WP, "other_metadata", <<"m">>)>>),
      Item(<<Leaf(WP, "other_metadata", <<"m">>), Leaf(WP, "foo", <<"x">>)>>) }

Roots ==
    {XmlEl(NoNs, "rss", <<>>, <<XmlEl(NoNs, "channel", <<>>, kids)>>) :
        kids \in SeqsUpTo(ChannelChildren, MaxArticles)}

InitBatch ==
    /\ pc = "batch"
    /\ root \in Roots
    /\ articles = <<>>
    /\ i = 0
    /\ exported_files = <<>>
    /\ files = <<>>
    /\ outcome = Running
    /\ HtmlIdle /\ NameIdle /\ RecordIdle

\* parser.parse() raises (the file is missing or not well-formed).
ParseFails ==
    /\ pc = "batch"
    /\ Reraise("ParseError")
    /\ UNCHANGED <<files, htmlVars, nameVars, recordVars>>

\* No node matches: the warning is printed and [] is returned.
ReturnNoArticles ==
    /\ pc = "batch"
    /\ find_articles(root, "item") = <<>>
    /\ outcome' = Returned
    /\ pc' = "done"
    /\ UNCHANGED <<root, articles, i, exported_files, files,
                   htmlVars, nameVars, recordVars>>

\* articles = parser.find_articles(article_tag); exported_files = []
StartLoop ==
    /\ pc = "batch"
    /\ find_articles(root, "item") # <<>>
    /\ articles' = find_articles(root, "item")
    /\ pc' = "loop"
    /\ UNCHANGED <<root, i, exported_files, files, outcome,
                   htmlVars, nameVars, recordVars>>

\* What extract_article_content returns or raises for the record in hand.
Extracted == extract_article_content(articles[i + 1])

\* What _format_as_markdown returns or raises inside export_article.
Markdown == _format_as_markdown(Converted(Extracted.record))

InLoop == pc = "loop" /\ i < Len(articles)

\* extract_article_content raises.
ExtractRaises ==
    /\ InLoop
    /\ Extracted.raised # ""
    /\ Reraise(Extracted.raised)
    /\ UNCHANGED <<files, htmlVars, nameVars, recordVars>>

\* _format_as_markdown raises, before the file is opened.
FormatRaises ==
    /\ InLoop
    /\ Extracted.raised = ""
    /\ Markdown.raised # ""
    /\ Reraise(Markdown.raised)
    /\ UNCHANGED <<files, htmlVars, nameVars, recordVars>>

CanWrite == InLoop /\ Extracted.raised = "" /\ Markdown.raised = ""

\* open(filepath, 'w') raises: the directory is as it was.
OpenFails ==
    /\ CanWrite
    /\ Reraise("OSError")
    /\ UNCHANGED <<files, htmlVars, nameVars, recordVars>>

\* open() created or emptied the file and the write then raises: the file
\* holds nothing, or a part of the text.
WriteFails ==
    /\ CanWrite
    /\ \E n \in {0, Len(Markdown.text) \div 2} :
          files' = WriteFile(files, ExportPath(Extracted.record, i),
                             SubSeq(Markdown.text, 1, n))
    /\ Reraise("OSError")
    /\ UNCHANGED <<htmlVars, nameVars, recordVars>>

\* One turn of the loop: the record is extracted, exported and its path kept.
ExportArticle ==
    /\ CanWrite
    /\ files' = WriteFile(files, ExportPath(Extracted.record, i), Markdown.text)
    /\ exported_files' = Append(exported_files, ExportPath(Extracted.record, i))
    /\ i' = i + 1
    /\ UNCHANGED <<pc, root, articles, outcome, htmlVars, nameVars, recordVars>>

\* return exported_files
Return ==
    /\ pc = "loop"
    /\ i = Len(articles)
    /\ outcome.status = "running"
    /\ outcome' = Returned
    /\ pc' = "done"
    /\ UNCHANGED <<root, articles, i, exported_files, files,
                   htmlVars, nameVars, recordVars>>

NextBatch ==
    \/ ParseFails \/ ReturnNoArticles \/ StartLoop
    \/ ExtractRaises \/ FormatRaises \/ OpenFails \/ WriteFails
    \/ ExportArticle \/ Return

SpecBatch == InitBatch /\ [][NextBatch]_vars

\* The path and the document of the record with (0-based) index j.
PathOfRecord(j) == ExportPath(extract_article_content(articles[j + 1]).record, j)
DocOfRecord(j) ==
    _format_as_markdown(Converted(extract_article_content(articles[j + 1]).record)).text

\* The directory when the first n records have each been written in
\* document order: a file holds the document of the last record with its path.
ExpectedFiles(n) ==
    [q \in {PathOfRecord(j) : j \in 0..(n - 1)} |->
        DocOfRecord(CHOOSE j \in 0..(n - 1) :
            /\ PathOfRecord(j) = q
            /\ \A m \in (j + 1)..(n - 1) : PathOfRecord(m) # q)]

\* C7: the records are written in document order and a returned list holds
\* one path per matched node in that order (none when no node matches);
\* equal filenames are kept apart in no way: the path is repeated and the
\* file holds the document of the last record with that filename.
C7_WrittenInDocumentOrder ==
    (pc \in {"loop", "done"} /\ outcome.status # "raised") =>
        /\ Len(exported_files) = i
        /\ \A j \in 0..(i - 1) : exported_files[j + 1] = PathOfRecord(j)
        /\ files = ExpectedFiles(i)
        /\ outcome.status = "returned" =>
              /\ articles = find_articles(root, "item")
              /\ i = Len(articles)

\* Reached: a list was returned in which the first two records share a
\* path, their documents differ, and a third record has another path.
C7_Witness ==
    /\ outcome.status = "returned"
    /\ Len(exported_files) = 3
    /\ exported_files[1] = exported_files[2]
    /\ exported_files[3] # exported_files[1]
    /\ DocOfRecord(0) # DocOfRecord(1)
    /\ files[exported_files[1]] = DocOfRecord(1)

\* C10 as stated: when the write of record k fails the batch stops there,
\* nothing is returned, no later record is handled, and the files written
\* for the records before k stay as written.
C10_EarlierFilesStayAsWritten ==
    (outcome.status = "raised" /\ outcome.error = "OSError") =>
        /\ pc = "done" /\ i = outcome.index /\ Len(exported_files) = i
        /\ DOMAIN files \subseteq {PathOfRecord(j) : j \in 0..i}
        /\ \A j \in 0..(i - 1) :
              files[PathOfRecord(j)] = ExpectedFiles(i)[PathOfRecord(j)]

\* C10 as amended: the same, but the file that bears the filename of
\* record k itself may have been emptied or partly rewritten.
C10_WriteFailureStopsBatch ==
    (outcome.status = "raised" /\ outcome.error = "OSError") =>
        /\ pc = "done" /\ i = outcome.index /\ Len(exported_files) = i
        /\ DOMAIN files \subseteq {PathOfRecord(j) : j \in 0..i}
        /\ \A j \in 0..(i - 1) :
              PathOfRecord(j) # PathOfRecord(i) =>
                  files[PathOfRecord(j)] = ExpectedFiles(i)[PathOfRecord(j)]

\* Reached: the write of the third record failed after the first two,
\* which have different paths, had been written.
C10_Witness ==
    /\ outcome.status = "raised" /\ outcome.error = "OSError"
    /\ outcome.index = 2
    /\ PathOfRecord(0) # PathOfRecord(1)
    /\ PathOfRecord(2) = PathOfRecord(0)
    /\ files[PathOfRecord(1)] = DocOfRecord(1)
    /\ files[PathOfRecord(0)] # DocOfRecord(0)

====
